---- MODULE Spec2Model ----
(***************************************************************************)
(* Model of pipeline.py (the launcher's __main__ block and run_scripts)    *)
(* and of sys_info.py (get_system_info, save_to_toml, main), the prober    *)
(* that pipeline.py starts as a subprocess.                                *)
(*                                                                         *)
(* The file system is a map from the two paths a run can name to a file    *)
(* content.  A content keeps what toml.load and the two read sites of      *)
(* pipeline.py look at: whether the file exists, whether it parses, and    *)
(* the chain system_info -> CUDA_Info -> CUDA_Available.                    *)
(* A Python name that may be unbound is a tuple: <<>> unbound, <<v>> bound. *)
(***************************************************************************)
EXTENDS Integers, Sequences, FiniteSets, TLC

\* Largest device count nvmlDeviceGetCount reports in the model.
MaxDevices == 2

\* Largest disk size (in whole GB) shutil.disk_usage reports in the model.
MaxDiskGB == 2

VARIABLES
    fs,              \* path -> file content
    fpath,           \* args.sys_config
    script_exists,   \* os.path.isfile('./sys_info.py')
    startup_exists,  \* os.path.exists(fpath) as the run starts
    pc,              \* position of pipeline.py's __main__
    config_gen,      \* result of run_scripts
    cpu_flag,
    gpu_flag,
    error,           \* the uncaught exception that ended pipeline.py
    printed,         \* what pipeline.py printed
    launches,        \* number of subprocess.run calls that started sys_info.py
    ppc,             \* position of the sys_info.py process
    NVML_AVAILABLE,
    system_info,     \* the dict get_system_info builds
    cuda_info,       \* local of the CUDA block
    device_count,
    i,               \* loop index of the device loop
    probe,           \* what each sub-probe met on this host
    save_result,     \* what save_to_toml did
    exit_code,       \* exit status of the sys_info.py process
    pstdout          \* what sys_info.py printed (captured by run_scripts)

vars == <<fs, fpath, script_exists, startup_exists, pc, config_gen, cpu_flag,
          gpu_flag, error, printed, launches, ppc, NVML_AVAILABLE, system_info,
          cuda_info, device_count, i, probe, save_result, exit_code, pstdout>>

pipeVars == <<pc, config_gen, cpu_flag, gpu_flag, error, printed, launches>>
proberVars == <<ppc, NVML_AVAILABLE, system_info, cuda_info, device_count, i,
                probe, save_result, exit_code, pstdout>>
envVars == <<fpath, script_exists, startup_exists>>

----------------------------------------------------------------------------
\* Paths.  'config.toml' (the prober's default output) and './config.toml'
\* (the path Step 2 opens) name the same file of the working directory.

ConfigToml == "./config.toml"
OtherToml == "./other.toml"
Paths == {ConfigToml, OtherToml}

\* The default of --sys_config.
DefaultSysConfig == ConfigToml

\* The default of -o/--output; run_scripts passes no -o.
DefaultOutput == ConfigToml

\* The path Step 2 opens.
Step2Path == ConfigToml

----------------------------------------------------------------------------
\* File contents.

Doc(state, sys, cinfo, avail, devices) ==
    [state |-> state, sys |-> sys, cinfo |-> cinfo, avail |-> avail,
     devices |-> devices]

Absent == Doc("absent", "missing", "missing", "missing", 0)
Invalid == Doc("invalid", "missing", "missing", "missing", 0)
\* An empty file: what open(filename, "w") leaves when nothing is written.
EmptyDoc == Doc("ok", "missing", "missing", "missing", 0)

AvailValues == {"true", "false", "int1", "int0", "string"}

InitialFiles ==
    {Absent, Invalid, EmptyDoc,
     Doc("ok", "table", "missing", "missing", 0),
     Doc("ok", "table", "string", "missing", 0),
     Doc("ok", "table", "table", "missing", 0)}
    \cup {Doc("ok", "table", "table", v, IF v = "true" THEN 1 ELSE 0) :
            v \in AvailValues}

Exists(path) == fs[path].state # "absent"

\* config['system_info']['CUDA_Info']['CUDA_Available'] on a parsed document:
\* a missing table key raises KeyError, indexing a string with a string
\* raises TypeError.
Lookup(doc) ==
    IF doc.sys = "missing" THEN "KeyError"
    ELSE IF doc.cinfo = "missing" THEN "KeyError"
    ELSE IF doc.cinfo = "string" THEN "TypeError"
    ELSE IF doc.avail = "missing" THEN "KeyError"
    ELSE doc.avail

IsException(r) == r \in {"KeyError", "TypeError"}

\* value == True in Python: the boolean true and the integer 1 compare equal.
EqTrue(v) == v \in {"true", "int1"}

FlagsFor_Swapped(cond) == IF cond THEN <<1, 0>> ELSE <<0, 1>>

\* <<cpu_flag, gpu_flag>> of the two branches of Step 2.
FlagsFor(cond) == IF cond THEN <<0, 1>> ELSE <<1, 0>>

----------------------------------------------------------------------------
\* The record of get_system_info.

Section(kind, msg, data) == [kind |-> kind, msg |-> msg, data |-> data]
Unset == Section("unset", "", <<>>)
ErrorString(msg) == Section("string", msg, <<>>)

CudaSection(kind, msg, avail, devs) ==
    [kind |-> kind, msg |-> msg, CUDA_Available |-> avail, Devices |-> devs]
CudaUnset == CudaSection("unset", "", FALSE, <<>>)
CudaString(msg) == CudaSection("string", msg, FALSE, <<>>)

BaseInfo == [Disk_Usage |-> Unset, CPU_Details |-> Unset, CUDA_Info |-> CudaUnset]

\* What disk_usage('/') does: raise, or report total and used.
DiskReadings ==
    {[fail |-> TRUE, total |-> 0, used |-> 0]}
    \cup UNION {{[fail |-> FALSE, total |-> t, used |-> u] : u \in 0..t} :
                  t \in {0, MaxDiskGB}}

\* percentage_used, in whole percent.
PercentageUsed(d) == IF d.total > 0 THEN (d.used * 100) \div d.total ELSE 0

DiskTable(d) ==
    Section("table", "",
            <<d.total, d.used, d.total - d.used, PercentageUsed(d)>>)

DiskTry(si, d) == [si EXCEPT !.Disk_Usage = DiskTable(d)]
DiskExcept(si) ==
    [si EXCEPT !.Disk_Usage = ErrorString("Error retrieving disk usage")]

\* What get_cpu_info() / psutil do: raise, or report a brand (or none) and
\* a frequency (or none).
CpuReadings ==
    {[fail |-> TRUE, brand |-> "N/A", freq |-> "N/A"]}
    \cup {[fail |-> FALSE, brand |-> b, freq |-> f] :
            b \in {"N/A", "brand"}, f \in {"N/A", "freq"}}

CpuTable(c) == Section("table", "", <<c.brand, c.freq>>)

CpuTry(si, c) == [si EXCEPT !.CPU_Details = CpuTable(c)]

CpuExcept_WrongKey(si) ==
    [si EXCEPT !.Disk_Usage = ErrorString("Error retrieving CPU details")]

CpuExcept(si) ==
    [si EXCEPT !.CPU_Details = ErrorString("Error retrieving CPU details")]

NvmlOutcomes == {"ok", "NVMLError", "Exception"}

NvmlMessage(r) ==
    IF r = "NVMLError" THEN "Error retrieving CUDA information"
    ELSE "Unexpected error"

NotInstalled == "pynvml module not installed. CUDA information not available."

CudaAvailable_NonNegative(n) == n >= 0

\* "CUDA_Available": device_count > 0
CudaAvailable(n) == n > 0

Device(k) == [Index |-> k]

\* toml.dump of {"system_info": system_info}, as far as a reader of
\* CUDA_Info sees it.
TomlDump(si) ==
    Doc("ok", "table",
        IF si.CUDA_Info.kind = "table" THEN "table" ELSE "string",
        IF si.CUDA_Info.kind = "table"
            THEN (IF si.CUDA_Info.CUDA_Available THEN "true" ELSE "false")
            ELSE "missing",
        IF si.CUDA_Info.kind = "table" THEN Len(si.CUDA_Info.Devices) ELSE 0)

NoProbe ==
    [disk |-> [fail |-> FALSE, total |-> 0, used |-> 0],
     cpu |-> [fail |-> FALSE, brand |-> "N/A", freq |-> "N/A"],
     gpu |-> "not_run"]

----------------------------------------------------------------------------
Init ==
    /\ fs \in [Paths -> InitialFiles]
    /\ fpath \in Paths
    /\ script_exists \in BOOLEAN
    /\ startup_exists = (fs[fpath].state # "absent")
    /\ pc = "main"
    /\ config_gen = <<>>
    /\ cpu_flag = <<>>
    /\ gpu_flag = <<>>
    /\ error = "none"
    /\ printed = {}
    /\ launches = 0
    /\ ppc = "idle"
    /\ NVML_AVAILABLE = FALSE
    /\ system_info = BaseInfo
    /\ cuda_info = CudaUnset
    /\ device_count = 0
    /\ i = 0
    /\ probe = NoProbe
    /\ save_result = "none"
    /\ exit_code = 0
    /\ pstdout = {}

----------------------------------------------------------------------------
\* pipeline.py

Crash(exc) ==
    /\ pc' = "crashed"
    /\ error' = exc

ShouldProbe_Always(exists) == TRUE

\* The else branch of `if os.path.exists(fpath)`.
ShouldProbe(exists) == ~exists

\* Lines 84-92: the file exists; load it and read the key (first read site).
MainConfigExists ==
    /\ pc = "main"
    /\ ~ShouldProbe(Exists(fpath))
    /\ LET doc == fs[fpath]
           r == Lookup(doc)
       IN  IF doc.state # "ok"
             THEN Crash("TomlDecodeError") /\ UNCHANGED printed
           ELSE IF r = "TypeError"
             THEN Crash("TypeError") /\ UNCHANGED printed
           ELSE IF r = "KeyError"
             THEN /\ printed' = printed \cup {"Configuration key missing"}
                  /\ pc' = "step2"
                  /\ UNCHANGED error
           ELSE /\ printed' = printed \cup {"CUDA Available"}
                /\ pc' = "step2"
                /\ UNCHANGED error
    /\ UNCHANGED <<fs, envVars, proberVars, config_gen, cpu_flag, gpu_flag,
                   launches>>

\* Lines 93-97, up to the call of run_scripts.
MainConfigAbsent ==
    /\ pc = "main"
    /\ ShouldProbe(Exists(fpath))
    /\ printed' = printed \cup {"Configuration file does not exist at path"}
    /\ pc' = "run_scripts"
    /\ UNCHANGED <<fs, envVars, proberVars, config_gen, cpu_flag, gpu_flag,
                   error, launches>>

\* run_scripts, lines 64-66: the script is no file.
RunScriptsMissing ==
    /\ pc = "run_scripts"
    /\ ~script_exists
    /\ printed' = printed \cup {"does not exists , try cloning from git again"}
    /\ config_gen' = <<FALSE>>
    /\ pc' = "step2"
    /\ UNCHANGED <<fs, envVars, proberVars, cpu_flag, gpu_flag, error, launches>>

\* run_scripts, lines 67-68 and 76-78: subprocess.run starts the prober, or
\* raises before starting it (no 'python' to execute).
RunScriptsLaunch ==
    /\ pc = "run_scripts"
    /\ script_exists
    /\ \E spawned \in BOOLEAN :
         IF spawned
           THEN /\ launches' = launches + 1
                /\ ppc' = "imports"
                /\ pc' = "waiting"
                /\ printed' = printed \cup {"Running"}
                /\ UNCHANGED config_gen
           ELSE /\ printed' = printed \cup {"Running", "Unexpeced error"}
                /\ config_gen' = <<FALSE>>
                /\ pc' = "step2"
                /\ UNCHANGED <<launches, ppc>>
    /\ UNCHANGED <<fs, envVars, cpu_flag, gpu_flag, error, NVML_AVAILABLE,
                   system_info, cuda_info, device_count, i, probe, save_result,
                   exit_code, pstdout>>

\* run_scripts, lines 68-75: the subprocess has ended; check=True turns a
\* non-zero exit status into CalledProcessError.
RunScriptsReturn ==
    /\ pc = "waiting"
    /\ ppc = "exited"
    /\ IF exit_code = 0
         THEN /\ printed' = printed \cup pstdout
                               \cup {"Configuration File Generated."}
              /\ config_gen' = <<TRUE>>
         ELSE /\ printed' = printed \cup {"An error occured while running"}
              /\ config_gen' = <<FALSE>>
    /\ pc' = "step2"
    /\ UNCHANGED <<fs, envVars, proberVars, cpu_flag, gpu_flag, error, launches>>

\* Lines 99-110: Step 2 (second read site) and the flags.
Step2 ==
    /\ pc = "step2"
    /\ LET doc == fs[Step2Path]
           r == Lookup(doc)
       IN  IF doc.state = "absent"
             THEN Crash("FileNotFoundError")
                  /\ printed' = printed \cup {"Step 2"}
                  /\ UNCHANGED <<cpu_flag, gpu_flag>>
           ELSE IF doc.state = "invalid"
             THEN Crash("TomlDecodeError")
                  /\ printed' = printed \cup {"Step 2"}
                  /\ UNCHANGED <<cpu_flag, gpu_flag>>
           ELSE IF IsException(r)
             THEN Crash(r)
                  /\ printed' = printed \cup {"Step 2"}
                  /\ UNCHANGED <<cpu_flag, gpu_flag>>
           ELSE /\ cpu_flag' = <<FlagsFor(EqTrue(r))[1]>>
                /\ gpu_flag' = <<FlagsFor(EqTrue(r))[2]>>
                /\ printed' = printed \cup {"Step 2", "cpu_flag", "gpu_flag"}
                /\ pc' = "done"
                /\ UNCHANGED error
    /\ UNCHANGED <<fs, envVars, proberVars, config_gen, launches>>

----------------------------------------------------------------------------
\* sys_info.py

\* Lines 37-60: the imports and logging.basicConfig.  A failing import of
\* psutil or cpuinfo ends the process with a traceback; a failing import of
\* pynvml only clears NVML_AVAILABLE.
ProberImports ==
    /\ ppc = "imports"
    /\ \E ok \in BOOLEAN, nvml \in BOOLEAN :
         IF ok
           THEN /\ NVML_AVAILABLE' = nvml
                /\ system_info' = BaseInfo
                /\ ppc' = "disk"
                /\ UNCHANGED exit_code
           ELSE /\ ppc' = "exited"
                /\ exit_code' = 1
                /\ UNCHANGED <<NVML_AVAILABLE, system_info>>
    /\ UNCHANGED <<fs, envVars, pipeVars, cuda_info, device_count, i, probe,
                   save_result, pstdout>>

\* Lines 82-95.
ProbeDisk ==
    /\ ppc = "disk"
    /\ \E d \in DiskReadings :
         /\ probe' = [probe EXCEPT !.disk = d]
         /\ system_info' = IF d.fail THEN DiskExcept(system_info)
                           ELSE DiskTry(system_info, d)
    /\ ppc' = "cpu"
    /\ UNCHANGED <<fs, envVars, pipeVars, NVML_AVAILABLE, cuda_info,
                   device_count, i, save_result, exit_code, pstdout>>

\* Lines 97-116.
ProbeCPU ==
    /\ ppc = "cpu"
    /\ \E c \in CpuReadings :
         /\ probe' = [probe EXCEPT !.cpu = c]
         /\ system_info' = IF c.fail THEN CpuExcept(system_info)
                           ELSE CpuTry(system_info, c)
    /\ ppc' = "gpu"
    /\ UNCHANGED <<fs, envVars, pipeVars, NVML_AVAILABLE, cuda_info,
                   device_count, i, save_result, exit_code, pstdout>>

\* Lines 153-155: pynvml is not installed.
ProbeGPUNotInstalled ==
    /\ ppc = "gpu"
    /\ ~NVML_AVAILABLE
    /\ system_info' = [system_info EXCEPT !.CUDA_Info = CudaString(NotInstalled)]
    /\ probe' = [probe EXCEPT !.gpu = "not_installed"]
    /\ ppc' = "return"
    /\ UNCHANGED <<fs, envVars, pipeVars, NVML_AVAILABLE, cuda_info,
                   device_count, i, save_result, exit_code, pstdout>>

\* Lines 119-126 with the handlers of 147-152: nvmlInit and
\* nvmlDeviceGetCount.
ProbeGPUInit ==
    /\ ppc = "gpu"
    /\ NVML_AVAILABLE
    /\ \E r \in NvmlOutcomes :
         IF r = "ok"
           THEN \E n \in 0..MaxDevices :
                  /\ device_count' = n
                  /\ cuda_info' = CudaSection("table", "", CudaAvailable(n), <<>>)
                  /\ i' = 0
                  /\ ppc' = "gpu_loop"
                  /\ UNCHANGED <<system_info, probe>>
           ELSE /\ system_info' =
                      [system_info EXCEPT !.CUDA_Info = CudaString(NvmlMessage(r))]
                /\ probe' = [probe EXCEPT !.gpu = "init_failed"]
                /\ ppc' = "return"
                /\ UNCHANGED <<device_count, cuda_info, i>>
    /\ UNCHANGED <<fs, envVars, pipeVars, NVML_AVAILABLE, save_result,
                   exit_code, pstdout>>

\* Lines 127-143 with the handlers of 147-152: one turn of the device loop.
ProbeGPUDevice ==
    /\ ppc = "gpu_loop"
    /\ i < device_count
    /\ \E r \in NvmlOutcomes :
         IF r = "ok"
           THEN /\ cuda_info' = [cuda_info EXCEPT
                                   !.Devices = Append(@, Device(i))]
                /\ i' = i + 1
                /\ UNCHANGED <<system_info, probe, ppc>>
           ELSE /\ system_info' =
                      [system_info EXCEPT !.CUDA_Info = CudaString(NvmlMessage(r))]
                /\ probe' = [probe EXCEPT !.gpu = "device_failed"]
                /\ ppc' = "return"
                /\ UNCHANGED <<cuda_info, i>>
    /\ UNCHANGED <<fs, envVars, pipeVars, NVML_AVAILABLE, device_count,
                   save_result, exit_code, pstdout>>

\* Lines 144-152: the loop is over; nvmlShutdown, then the record is stored.
ProbeGPUFinish ==
    /\ ppc = "gpu_loop"
    /\ i = device_count
    /\ \E r \in NvmlOutcomes :
         IF r = "ok"
           THEN /\ system_info' = [system_info EXCEPT !.CUDA_Info = cuda_info]
                /\ probe' = [probe EXCEPT !.gpu = "enumerated"]
           ELSE /\ system_info' =
                      [system_info EXCEPT !.CUDA_Info = CudaString(NvmlMessage(r))]
                /\ probe' = [probe EXCEPT !.gpu = "shutdown_failed"]
    /\ ppc' = "return"
    /\ UNCHANGED <<fs, envVars, pipeVars, NVML_AVAILABLE, cuda_info,
                   device_count, i, save_result, exit_code, pstdout>>

\* save_to_toml as main calls it (lines 160-176, 195-203): get_system_info
\* has returned; the file is written, or open fails and nothing changes, or
\* the dump fails after open has truncated the file.  Both failures are
\* caught and printed; main then ends normally.
SaveToToml ==
    /\ ppc = "return"
    /\ \E w \in {"written", "open_failed", "dump_failed"} :
         /\ save_result' = w
         /\ fs' = IF w = "written"
                    THEN [fs EXCEPT ![DefaultOutput] = TomlDump(system_info)]
                  ELSE IF w = "dump_failed"
                    THEN [fs EXCEPT ![DefaultOutput] = EmptyDoc]
                  ELSE fs
         /\ pstdout' = IF w = "written"
                         THEN pstdout \cup {"System information saved"}
                         ELSE pstdout \cup {"Failed to save system information"}
    /\ ppc' = "exited"
    /\ exit_code' = 0
    /\ UNCHANGED <<envVars, pipeVars, NVML_AVAILABLE, system_info, cuda_info,
                   device_count, i, probe>>

----------------------------------------------------------------------------
Next ==
    \/ MainConfigExists
    \/ MainConfigAbsent
    \/ RunScriptsMissing
    \/ RunScriptsLaunch
    \/ RunScriptsReturn
    \/ Step2
    \/ ProberImports
    \/ ProbeDisk
    \/ ProbeCPU
    \/ ProbeGPUNotInstalled
    \/ ProbeGPUInit
    \/ ProbeGPUDevice
    \/ ProbeGPUFinish
    \/ SaveToToml

Spec == Init /\ [][Next]_vars

----------------------------------------------------------------------------
\* Properties

Terminal == pc \in {"done", "crashed"}

\* get_system_info has returned its record.
ProbeReturned == ppc = "return" \/ (ppc = "exited" /\ save_result # "none")

\* The phases of a run, in the order the code goes through them.
PhaseRank(p) ==
    CASE p = "main" -> 0
      [] p = "run_scripts" -> 1
      [] p = "waiting" -> 2
      [] p = "step2" -> 3
      [] OTHER -> 4

\* No GPU could be detected: pynvml missing, NVML initialisation failed, or
\* zero devices reported.
GpuUndetectable ==
    \/ probe.gpu \in {"not_installed", "init_failed"}
    \/ (probe.gpu = "enumerated" /\ device_count = 0)

\* C1: every run ends with exactly one of cpu_flag / gpu_flag equal to 1 and
\* the other equal to 0, never both, never neither, never unassigned.
C1_ExactlyOneFlag ==
    Terminal =>
        <<cpu_flag, gpu_flag>> \in {<< <<1>>, <<0>> >>, << <<0>>, <<1>> >>}

\* C2: when the config file is absent at startup and the regeneration step
\* fails, leaving no config file (none at the config path, none at the path
\* Step 2 opens), the run does not end in an uncaught exception.
C2_NoCrashAfterFailedRegeneration ==
    (Terminal /\ ~startup_exists /\ config_gen = <<FALSE>>
        /\ ~Exists(fpath) /\ ~Exists(Step2Path))
        => error = "none"

\* C3: config file absent, the prober runs and writes its file, no GPU can be
\* detected (pynvml not installed, NVML initialisation failed, or zero
\* devices): the written file has CUDA_Available = false and the derivation
\* ends with cpu_flag = 1, gpu_flag = 0.
C3_UndetectableGpuGivesCpu ==
    (~startup_exists /\ launches = 1 /\ save_result = "written" /\ GpuUndetectable)
        => /\ fs[DefaultOutput].avail = "false"
           /\ Terminal => (pc = "done" /\ cpu_flag = <<1>> /\ gpu_flag = <<0>>)

\* C4: when the loaded document has no CUDA_Available key, the first read
\* site reports the missing key and the run goes on, and the second read
\* site takes the CPU branch: cpu_flag = 1, gpu_flag = 0.
C4_MissingKeyDefaultsToCpu ==
    /\ (startup_exists /\ pc # "main" /\ fs[fpath].state = "ok"
            /\ Lookup(fs[fpath]) = "KeyError")
          => /\ "Configuration key missing" \in printed
             /\ ("Step 2" \notin printed => pc = "step2")
    /\ (Terminal /\ "Step 2" \in printed /\ fs[Step2Path].state = "ok"
            /\ Lookup(fs[Step2Path]) = "KeyError")
          => (pc = "done" /\ cpu_flag = <<1>> /\ gpu_flag = <<0>>)

\* C5: when the document Step 2 loads has the CUDA_Available key, the value
\* true gives (cpu_flag = 0, gpu_flag = 1) and the value false gives
\* (cpu_flag = 1, gpu_flag = 0).
C5_FlagsFollowKey ==
    (Terminal /\ "Step 2" \in printed /\ fs[Step2Path].state = "ok")
        => LET r == Lookup(fs[Step2Path])
           IN  /\ r = "true" =>
                     (pc = "done" /\ cpu_flag = <<0>> /\ gpu_flag = <<1>>)
               /\ r = "false" =>
                     (pc = "done" /\ cpu_flag = <<1>> /\ gpu_flag = <<0>>)

C5_Witness ==
    /\ pc = "done"
    /\ Lookup(fs[Step2Path]) = "true"
    /\ gpu_flag = <<1>>

\* C6: whatever combination of sub-probes fails, the returned record has all
\* three sections; the section of a failed sub-probe is an error string and
\* the section of every other sub-probe is what that sub-probe's readings
\* give in a run without failures.
C6_SubProbesIndependent ==
    ProbeReturned =>
        /\ system_info.Disk_Usage =
             (IF probe.disk.fail
                THEN ErrorString("Error retrieving disk usage")
                ELSE DiskTable(probe.disk))
        /\ system_info.CPU_Details =
             (IF probe.cpu.fail
                THEN ErrorString("Error retrieving CPU details")
                ELSE CpuTable(probe.cpu))
        /\ IF probe.gpu = "enumerated"
             THEN /\ system_info.CUDA_Info.kind = "table"
                  /\ system_info.CUDA_Info.Devices =
                       [k \in 1..device_count |-> Device(k - 1)]
             ELSE system_info.CUDA_Info.kind = "string"

C6_Witness ==
    /\ ProbeReturned
    /\ probe.disk.fail
    /\ ~probe.cpu.fail
    /\ system_info.CPU_Details.kind = "table"
    /\ probe.gpu = "enumerated"
    /\ device_count > 0

\* C7: a structured CUDA_Info has CUDA_Available true exactly when its
\* device list is non-empty, with one entry per reported device; a failure
\* while enumerating leaves an error string, not a structured record.
C7_AvailableIffDevices ==
    /\ system_info.CUDA_Info.kind = "table" =>
          /\ system_info.CUDA_Info.CUDA_Available
                <=> (Len(system_info.CUDA_Info.Devices) > 0)
          /\ Len(system_info.CUDA_Info.Devices) = device_count
    /\ probe.gpu \in {"device_failed", "shutdown_failed"} =>
          system_info.CUDA_Info.kind = "string"

C7_Witness ==
    /\ system_info.CUDA_Info.kind = "table"
    /\ system_info.CUDA_Info.CUDA_Available
    /\ Len(system_info.CUDA_Info.Devices) > 0

\* C8: the prober is started only when no file was at the config path at
\* startup, and at most once; with an existing file the run goes from the
\* first read straight to Step 2; no step returns to an earlier phase.
C8_ProbeOnlyIfAbsentOnce ==
    [][ /\ launches' # launches =>
              (launches = 0 /\ launches' = 1 /\ ~startup_exists /\ ~Exists(fpath))
        /\ (startup_exists /\ pc = "main") => pc' \in {"step2", "crashed"}
        /\ PhaseRank(pc') >= PhaseRank(pc) ]_vars

C8_Witness ==
    /\ pc = "done"
    /\ launches = 1
    /\ ~startup_exists

\* C9: a failed write in save_to_toml is reported to the caller: run_scripts
\* does not see a successful generation.
C9_WriteFailureReported ==
    (save_result \in {"open_failed", "dump_failed"} /\ config_gen # <<>>)
        => /\ config_gen = <<FALSE>>
           /\ "Configuration File Generated." \notin printed

\* C10: the flags are derived from the file at the --sys_config path, the
\* one tested at startup, and that is the file the prober writes.
C10_SameFile ==
    /\ pc = "done" =>
          /\ fs[fpath].state = "ok"
          /\ ~IsException(Lookup(fs[fpath]))
          /\ <<cpu_flag[1], gpu_flag[1]>> = FlagsFor(EqTrue(Lookup(fs[fpath])))
    /\ save_result = "written" => Exists(fpath)

====
